---- MODULE Spec2Model ----
(***************************************************************************)
(* Model of RepositoryAnalyzer (readme_generator.py): the scan of a source *)
(* tree (analyze_repository), the detection call to the summarizer, the    *)
(* README generation and the persistence step of main.                     *)
(*                                                                         *)
(* Names are sequences of one-character strings, so that lower(), suffix,  *)
(* startswith and substring tests are computed as Python computes them.    *)
(* A path is a sequence of names.  File contents and summarizer replies    *)
(* are sequences of symbols; a symbol is either a character or a JSON      *)
(* lexeme (see the section on json.loads).                                 *)
(***************************************************************************)
EXTENDS Integers, Sequences, FiniteSets, TLC

(***************************************************************************)
(* Bounds of the model.                                                    *)
(***************************************************************************)
\* sub-directories of the enumerated trees
MaxDirs == 2
\* files of the enumerated trees
MaxFiles == 2
\* key files of the flat trees (beyond the limit of 10 excerpts)
MaxKeyFiles == 11
\* symbols of a summarizer reply
MaxReplyLen == 4
\* how far the long contents reach beyond each content cap
CapSlack == 1

(***************************************************************************)
(* Strings.                                                                *)
(***************************************************************************)
UpperChars == <<"A","B","C","D","E","F","G","H","I","J","K","L","M",
                "N","O","P","Q","R","S","T","U","V","W","X","Y","Z">>

LowerChars == <<"a","b","c","d","e","f","g","h","i","j","k","l","m",
                "n","o","p","q","r","s","t","u","v","w","x","y","z">>

\* str.lower() on one character
LowerChar(c) ==
    IF \E i \in 1..Len(UpperChars) : UpperChars[i] = c
    THEN LowerChars[CHOOSE i \in 1..Len(UpperChars) : UpperChars[i] = c]
    ELSE c

\* str.lower()
Lower(s) == [i \in 1..Len(s) |-> LowerChar(s[i])]

\* str.startswith(prefix)
StartsWith(s, prefix) ==
    /\ Len(prefix) <= Len(s)
    /\ SubSeq(s, 1, Len(prefix)) = prefix

\* `sub in s' for strings
Contains(s, sub) ==
    \E i \in 0..(Len(s) - Len(sub)) : SubSeq(s, i + 1, i + Len(sub)) = sub

\* s[:k]
Prefix(s, k) == SubSeq(s, 1, IF k < Len(s) THEN k ELSE Len(s))

\* str.rfind("."), 0-based, -1 when there is no dot
RFindDot(s) ==
    IF \E i \in 1..Len(s) : s[i] = "."
    THEN (CHOOSE i \in 1..Len(s) : s[i] = "." /\ \A j \in (i+1)..Len(s) : s[j] # ".") - 1
    ELSE -1

\* pathlib: PurePath.suffix of the final component
Suffix(name) ==
    LET i == RFindDot(name)
    IN  IF 0 < i /\ i < Len(name) - 1 THEN SubSeq(name, i + 1, Len(name)) ELSE <<>>

\* str(path): the components joined by "/"
RECURSIVE PathStr(_)
PathStr(p) ==
    IF p = <<>> THEN <<".">>
    ELSE IF Len(p) = 1 THEN p[1]
    ELSE p[1] \o <<"/">> \o PathStr(Tail(p))

(***************************************************************************)
(* The tables of RepositoryAnalyzer.                                       *)
(***************************************************************************)
supported_extensions == {
    <<".","p","y">>, <<".","j","s">>, <<".","t","s">>, <<".","j","a","v","a">>, <<".","c","p","p">>,
    <<".","c">>, <<".","h">>, <<".","h","p","p">>, <<".","c","s">>, <<".","p","h","p">>, <<".","r","b">>,
    <<".","g","o">>, <<".","r","s">>, <<".","s","w","i","f","t">>, <<".","k","t">>, <<".","k","t","s">>,
    <<".","s","c","a","l","a">>, <<".","r">>, <<".","m">>, <<".","j","l">>, <<".","d","a","r","t">>,
    <<".","p","l">>, <<".","p","m">>, <<".","l","u","a">>, <<".","g","r","o","o","v","y">>, <<".","v","b">>,
    <<".","v","b","s">>, <<".","f","s">>, <<".","f","s","i">>, <<".","f","s","x">>, <<".","f","9","0">>,
    <<".","f","9","5">>, <<".","f">>, <<".","f","0","3">>, <<".","f","0","8">>, <<".","a","s","m">>,
    <<".","s">>, <<".","d">>, <<".","n","i","m">>, <<".","c","l","j">>, <<".","c","l","j","s">>,
    <<".","c","l","j","c">>, <<".","e","d","n">>, <<".","e","r","l">>, <<".","h","r","l">>, <<".","e","x">>,
    <<".","e","x","s">>, <<".","e","l","m">>, <<".","m","l">>, <<".","m","l","i">>, <<".","m","l","l">>,
    <<".","m","l","y">>, <<".","h","s">>, <<".","l","h","s">>, <<".","p","u","r","s">>, <<".","a","d","a">>,
    <<".","a","d","b">>, <<".","a","d","s">>, <<".","v">>, <<".","s","v">>, <<".","v","h","d">>,
    <<".","v","h","d","l">>, <<".","c","o","b">>, <<".","c","b","l">>, <<".","l","i","s","p">>,
    <<".","l","s","p">>, <<".","s","c","m">>, <<".","r","k","t">>, <<".","s","s">>, <<".","a","w","k">>,
    <<".","p","s","1">>, <<".","b","a","t">>, <<".","c","m","d">>, <<".","s","h">>, <<".","z","s","h">>,
    <<".","f","i","s","h">>, <<".","t","c","s","h">>, <<".","c","s","h">>, <<".","b","s","h">>,
    <<".","t","c","l">>, <<".","e","x","p">>, <<".","e","x","p","e","c","t">>, <<".","b","a","s">>,
    <<".","p","a","s">>, <<".","p","p">>, <<".","d","p","r">>, <<".","c","r">>, <<".","v","a","l","a">>,
    <<".","h","x">>, <<".","h","x","s","l">>, <<".","h","x","p","r","o","j">>, <<".","m","m">>,
    <<".","o","b","j","c">>, <<".","o","b","j","c","p","p">>, <<".","c","u">>, <<".","c","u","h">>,
    <<".","c","l">>, <<".","o","p","e","n","c","l">>, <<".","g","l","s","l">>, <<".","v","e","r","t">>,
    <<".","f","r","a","g">>, <<".","c","o","m","p">>, <<".","t","e","s","c">>, <<".","t","e","s","e">>,
    <<".","g","e","o","m">>, <<".","w","g","s","l">>, <<".","m","e","t","a","l">>, <<".","S">>,
    <<".","v","a","p","i">>, <<".","o","d","i","n">>, <<".","z","i","g">>, <<".","p","o","n","y">>,
    <<".","f","a","c","t","o","r">>, <<".","h","t","m","l">>, <<".","h","t","m">>,
    <<".","x","h","t","m","l">>, <<".","x","m","l">>, <<".","s","v","g">>, <<".","x","s","d">>,
    <<".","x","s","l","t">>, <<".","j","s","p">>, <<".","a","s","p">>, <<".","a","s","p","x">>,
    <<".","e","j","s">>, <<".","h","b","s">>, <<".","h","a","n","d","l","e","b","a","r","s">>,
    <<".","m","u","s","t","a","c","h","e">>, <<".","t","w","i","g">>, <<".","l","i","q","u","i","d">>,
    <<".","j","a","d","e">>, <<".","p","u","g">>, <<".","h","a","m","l">>, <<".","s","l","i","m">>,
    <<".","m","j","m","l">>, <<".","m","d">>, <<".","m","a","r","k","d","o","w","n">>, <<".","r","s","t">>,
    <<".","a","d","o","c">>, <<".","a","s","c","i","i","d","o","c">>, <<".","t","e","x">>,
    <<".","l","a","t","e","x">>, <<".","s","t","y">>, <<".","c","l","s">>, <<".","b","i","b">>,
    <<".","r","m","d">>, <<".","i","p","y","n","b">>, <<".","c","s","s">>, <<".","s","c","s","s">>,
    <<".","s","a","s","s">>, <<".","l","e","s","s">>, <<".","s","t","y","l">>, <<".","p","c","s","s">>,
    <<".","s","s","s">>, <<".","j","s","o","n">>, <<".","j","s","o","n","c">>, <<".","j","s","o","n","5">>,
    <<".","y","a","m","l">>, <<".","y","m","l">>, <<".","t","o","m","l">>, <<".","i","n","i">>,
    <<".","c","f","g">>, <<".","c","o","n","f">>, <<".","e","n","v">>,
    <<".","p","r","o","p","e","r","t","i","e","s">>, <<".","p","r","o","p">>, <<".","p","r","e","f","s">>,
    <<".","p","l","i","s","t">>, <<".","r","c">>, <<".","c","o","n","f","i","g">>, <<".","t","s","v">>,
    <<".","c","s","v">>, <<".","p","s","v">>, <<".","d","b">>, <<".","s","q","l","i","t","e">>,
    <<".","d","b","3">>, <<".","s","q","l">>, <<".","d","b","f">>, <<".","g","r","a","d","l","e">>,
    <<".","m","a","v","e","n">>, <<".","p","o","m">>, <<".","s","b","t">>, <<".","c","m","a","k","e">>,
    <<".","m","a","k","e">>, <<".","m","a","k">>, <<".","m","k">>, <<".","n","i","n","j","a">>,
    <<".","b","a","z","e","l">>, <<".","b","z","l">>, <<".","b","u","c","k">>, <<".","b","u","i","l","d">>,
    <<".","p","r","o">>, <<".","p","r","i">>, <<".","q","b","s">>, <<".","x","c","c","o","n","f","i","g">>,
    <<".","x","c","w","o","r","k","s","p","a","c","e">>, <<".","x","c","o","d","e","p","r","o","j">>,
    <<".","x","c","s","e","t","t","i","n","g","s">>, <<".","x","c","u","s","e","r","s","t","a","t","e">>,
    <<".","x","c","u","s","e","r","d","a","t","a">>, <<".","n","u","s","p","e","c">>,
    <<".","c","s","p","r","o","j">>, <<".","v","b","p","r","o","j">>, <<".","f","s","p","r","o","j">>,
    <<".","s","l","n">>, <<".","v","c","x","p","r","o","j">>, <<".","v","c","p","r","o","j">>,
    <<".","p","r","o","p","s">>, <<".","t","a","r","g","e","t","s">>, <<".","g","y","p">>,
    <<".","g","y","p","i">>, <<".","a","m">>, <<".","a","c">>, <<".","m","4">>,
    <<".","a","u","t","o","g","e","n">>, <<".","c","o","n","f","i","g","u","r","e">>,
    <<".","s","p","e","c">>, <<".","e","b","u","i","l","d">>, <<".","m","i","x">>,
    <<".","r","e","b","a","r">>, <<".","r","e","b","a","r",".","c","o","n","f","i","g">>,
    <<".","c","a","r","g","o">>, <<".","c","a","r","g","o",".","t","o","m","l">>,
    <<".","c","a","r","g","o",".","l","o","c","k">>, <<".","g","o",".","m","o","d">>,
    <<".","g","o",".","s","u","m">>, <<".","c","o","m","p","o","s","e","r",".","j","s","o","n">>,
    <<".","c","o","m","p","o","s","e","r",".","l","o","c","k">>,
    <<".","p","a","c","k","a","g","e",".","j","s","o","n">>,
    <<".","p","a","c","k","a","g","e","-","l","o","c","k",".","j","s","o","n">>,
    <<".","y","a","r","n",".","l","o","c","k">>,
    <<".","p","n","p","m","-","l","o","c","k",".","y","a","m","l">>,
    <<".","r","e","q","u","i","r","e","m","e","n","t","s",".","t","x","t">>,
    <<".","P","i","p","f","i","l","e">>, <<".","P","i","p","f","i","l","e",".","l","o","c","k">>,
    <<".","p","y","p","r","o","j","e","c","t",".","t","o","m","l">>, <<".","s","e","t","u","p",".","p","y">>,
    <<".","s","e","t","u","p",".","c","f","g">>, <<".","t","o","x">>, <<".","f","l","a","k","e","8">>,
    <<".","m","y","p","y",".","i","n","i">>, <<".","p","y","t","e","s","t",".","i","n","i">>,
    <<".","c","o","v","e","r","a","g","e","r","c">>, <<".","b","a","b","e","l","r","c">>,
    <<".","e","s","l","i","n","t","r","c">>, <<".","e","s","l","i","n","t","i","g","n","o","r","e">>,
    <<".","p","r","e","t","t","i","e","r","r","c">>,
    <<".","p","r","e","t","t","i","e","r","i","g","n","o","r","e">>,
    <<".","s","t","y","l","e","l","i","n","t","r","c">>,
    <<".","s","t","y","l","e","l","i","n","t","i","g","n","o","r","e">>,
    <<".","e","d","i","t","o","r","c","o","n","f","i","g">>,
    <<".","g","i","t","a","t","t","r","i","b","u","t","e","s">>, <<".","g","i","t","i","g","n","o","r","e">>,
    <<".","d","o","c","k","e","r","f","i","l","e">>,
    <<".","d","o","c","k","e","r","-","c","o","m","p","o","s","e",".","y","m","l">>,
    <<".","d","o","c","k","e","r","-","c","o","m","p","o","s","e",".","y","a","m","l">>,
    <<".","v","a","g","r","a","n","t","f","i","l","e">>, <<".","P","r","o","c","f","i","l","e">>,
    <<".","h","e","r","o","k","u",".","y","m","l">>, <<".","a","p","p","v","e","y","o","r",".","y","m","l">>,
    <<".","t","r","a","v","i","s",".","y","m","l">>, <<".","c","i","r","c","l","e","c","i">>,
    <<".","g","i","t","h","u","b">>, <<".","g","i","t","l","a","b","-","c","i",".","y","m","l">>,
    <<".","b","i","t","b","u","c","k","e","t","-","p","i","p","e","l","i","n","e","s",".","y","m","l">>,
    <<".","a","z","u","r","e","-","p","i","p","e","l","i","n","e","s",".","y","m","l">>,
    <<".","j","e","n","k","i","n","s","f","i","l","e">>,
    <<".","b","u","i","l","d","k","i","t","e",".","y","m","l">>,
    <<".","c","o","d","e","c","l","i","m","a","t","e",".","y","m","l">>,
    <<".","d","e","p","e","n","d","a","b","o","t",".","y","m","l">>,
    <<".","r","e","n","o","v","a","t","e",".","j","s","o","n">>,
    <<".","s","o","n","a","r","c","l","o","u","d",".","p","r","o","p","e","r","t","i","e","s">>,
    <<".","t","x","t">>, <<".","l","o","g">>, <<".","o","u","t">>, <<".","e","r","r">>, <<".","l","s","t">>,
    <<".","l","i","s","t">>, <<".","c","h","a","n","g","e","l","o","g">>,
    <<".","c","h","a","n","g","e","s">>, <<".","n","e","w","s">>, <<".","t","o","d","o">>,
    <<".","t","a","s","k","s">>, <<".","l","i","c","e","n","s","e">>, <<".","l","i","c","e","n","c","e">>,
    <<".","c","o","p","y","i","n","g">>, <<".","n","o","t","i","c","e">>,
    <<".","a","u","t","h","o","r","s">>, <<".","c","o","n","t","r","i","b","u","t","o","r","s">>,
    <<".","c","r","e","d","i","t","s">>, <<".","r","e","a","d","m","e">>,
    <<".","r","e","a","d","m","e",".","m","d">>, <<".","r","e","a","d","m","e",".","t","x","t">>,
    <<".","r","e","a","d","m","e",".","r","s","t">>
    }

\* mimetypes.guess_type: the suffixes of the standard table that map to a
\* text/* type and are not in supported_extensions (looked up lowercased)
TextMimeSuffixes == {
    <<".","i","c","s">>, <<".","v","c","f">>, <<".","r","t","x">>, <<".","e","t","x">>,
    <<".","s","g","m">>, <<".","s","g","m","l">>, <<".","k","s","h">> }

ExtensionlessNames == {
    <<"m","a","k","e","f","i","l","e">>, <<"d","o","c","k","e","r","f","i","l","e">>,
    <<"r","e","a","d","m","e">>, <<"l","i","c","e","n","s","e">>,
    <<"c","h","a","n","g","e","l","o","g">> }

is_text_file(name) ==
    \/ Lower(Suffix(name)) \in supported_extensions
    \/ Lower(Suffix(name)) \in TextMimeSuffixes
    \/ Lower(name) \in ExtensionlessNames

skip_dirs == {
    <<"n","o","d","e","_","m","o","d","u","l","e","s">>, <<".","g","i","t">>, <<".","s","v","n">>,
    <<".","h","g">>, <<"_","_","p","y","c","a","c","h","e","_","_">>,
    <<".","p","y","t","e","s","t","_","c","a","c","h","e">>, <<".","m","y","p","y","_","c","a","c","h","e">>,
    <<"v","e","n","v">>, <<"e","n","v">>, <<".","e","n","v">>,
    <<"b","u","i","l","d">>, <<"d","i","s","t">>, <<".","n","e","x","t">>, <<".","n","u","x","t">>,
    <<"t","a","r","g","e","t">>, <<"b","i","n">>, <<"o","b","j">>,
    <<".","i","d","e","a">>, <<".","v","s","c","o","d","e">>, <<".","v","s">>,
    <<"c","o","v","e","r","a","g","e">>, <<".","c","o","v","e","r","a","g","e">>,
    <<"l","o","g","s">>, <<"l","o","g">>, <<"t","m","p">>, <<"t","e","m","p">>,
    <<".","t","m","p">>, <<".","t","e","m","p">> }

should_skip_directory(dir_name) ==
    Lower(dir_name) \in skip_dirs \/ StartsWith(dir_name, <<".">>)

(***************************************************************************)
(* json.loads.  A text is a sequence of symbols.  The JSON lexemes are     *)
(*   "{" "}"  the braces of an object                                      *)
(*   "m"      the members "frameworks": ["Flask"], "technologies": [],     *)
(*            "project_type": "API"                                        *)
(*   "d"      the member "dependencies": {"left-pad": "1.0.0"}             *)
(*   "v"      the member "devDependencies": {"jest": "29.0.0",              *)
(*            "left-pad": "2.0.0"}                                         *)
(*   "k"      a key with its colon, to be followed by a value              *)
(*   "L"      a complete value that is not an object (an array literal)    *)
(* and " " and "\n" are whitespace.  Every other symbol is text that is    *)
(* not JSON.  A member lexeme carries its separating comma.                *)
(***************************************************************************)
Whitespace == {" ", "\n"}

MemberLexemes == {"m", "d", "v"}

\* str.strip()
RECURSIVE LStrip(_)
LStrip(s) == IF s # <<>> /\ Head(s) \in Whitespace THEN LStrip(Tail(s)) ELSE s

RECURSIVE RStrip(_)
RStrip(s) ==
    IF s # <<>> /\ s[Len(s)] \in Whitespace THEN RStrip(SubSeq(s, 1, Len(s) - 1)) ELSE s

Strip(s) == RStrip(LStrip(s))

\* the lexemes of a text: whitespace between lexemes is insignificant
Lexemes(s) == SelectSeq(s, LAMBDA c : c \notin Whitespace)

\* the position after the value that starts at lexeme i, 0 when none does
RECURSIVE ValueEnd(_, _)
\* the position after the closing brace of the object whose members start at j
RECURSIVE MembersEnd(_, _)
ValueEnd(s, i) ==
    IF i > Len(s) THEN 0
    ELSE IF s[i] = "L" THEN i + 1
    ELSE IF s[i] = "{" THEN MembersEnd(s, i + 1)
    ELSE 0

MembersEnd(s, j) ==
    IF j > Len(s) THEN 0
    ELSE IF s[j] = "}" THEN j + 1
    ELSE IF s[j] \in MemberLexemes THEN MembersEnd(s, j + 1)
    ELSE IF s[j] = "k"
         THEN LET e == ValueEnd(s, j + 1) IN IF e = 0 THEN 0 ELSE MembersEnd(s, e)
    ELSE 0

\* the member lexemes of the outermost object whose members start at j
RECURSIVE TopMembers(_, _)
TopMembers(s, j) ==
    IF s[j] = "}" THEN {}
    ELSE IF s[j] \in MemberLexemes THEN {s[j]} \cup TopMembers(s, j + 1)
    ELSE TopMembers(s, ValueEnd(s, j + 1))

\* json.loads raises JSONDecodeError unless the whole text is one value
JsonValid(text) ==
    LET s == Lexemes(text) IN s # <<>> /\ ValueEnd(s, 1) = Len(s) + 1

\* json.loads of a valid text: whether it is a dict, and its member lexemes
json_loads(text) ==
    LET s == Lexemes(text)
    IN  IF s[1] = "{" THEN [isdict |-> TRUE, members |-> TopMembers(s, 2)]
        ELSE [isdict |-> FALSE, members |-> {}]

(***************************************************************************)
(* KeyFileSelector.                                                        *)
(***************************************************************************)
KeyFileNames == {
    <<"p","a","c","k","a","g","e",".","j","s","o","n">>,
    <<"r","e","q","u","i","r","e","m","e","n","t","s",".","t","x","t">>,
    <<"p","o","m",".","x","m","l">>, <<"b","u","i","l","d",".","g","r","a","d","l","e">>,
    <<"c","a","r","g","o",".","t","o","m","l">>, <<"g","o",".","m","o","d">>,
    <<"c","o","m","p","o","s","e","r",".","j","s","o","n">>,
    <<"p","y","p","r","o","j","e","c","t",".","t","o","m","l">>,
    <<"s","e","t","u","p",".","p","y">>, <<"d","o","c","k","e","r","f","i","l","e">>,
    <<"d","o","c","k","e","r","-","c","o","m","p","o","s","e",".","y","m","l">>,
    <<"m","a","k","e","f","i","l","e">> }

EntryPointWords == {
    <<"m","a","i","n">>, <<"i","n","d","e","x">>, <<"a","p","p">>, <<"s","e","r","v","e","r">>,
    <<"_","_","i","n","i","t","_","_">> }

\* the keywords import, require, include, using, from: the symbol "i"
\* stands for an occurrence of one of them ("I" for one in upper case)
ImportKeywords == { <<"i">> }

KeyContentMin == 100

KeyContentSlice == 500

is_key_file_for_analysis(name, content) ==
    LET filename == Lower(name)
    IN  \/ filename \in KeyFileNames
        \/ \E w \in EntryPointWords : Contains(filename, w)
        \/ /\ Len(content) > KeyContentMin
           /\ \E kw \in ImportKeywords : Contains(Prefix(Lower(content), KeyContentSlice), kw)

(***************************************************************************)
(* StructuralAggregator.                                                   *)
(***************************************************************************)
config_file_names == {
    <<"p","a","c","k","a","g","e",".","j","s","o","n">>, <<"y","a","r","n",".","l","o","c","k">>,
    <<"p","a","c","k","a","g","e","-","l","o","c","k",".","j","s","o","n">>,
    <<"r","e","q","u","i","r","e","m","e","n","t","s",".","t","x","t">>,
    <<"p","y","p","r","o","j","e","c","t",".","t","o","m","l">>,
    <<"s","e","t","u","p",".","p","y">>, <<"p","i","p","f","i","l","e">>,
    <<"p","o","m",".","x","m","l">>, <<"b","u","i","l","d",".","g","r","a","d","l","e">>,
    <<"b","u","i","l","d",".","g","r","a","d","l","e",".","k","t","s">>,
    <<"c","a","r","g","o",".","t","o","m","l">>, <<"c","a","r","g","o",".","l","o","c","k">>,
    <<"g","o",".","m","o","d">>, <<"g","o",".","s","u","m">>,
    <<"c","o","m","p","o","s","e","r",".","j","s","o","n">>,
    <<"c","o","m","p","o","s","e","r",".","l","o","c","k">>,
    <<"d","o","c","k","e","r","f","i","l","e">>,
    <<"d","o","c","k","e","r","-","c","o","m","p","o","s","e",".","y","m","l">>,
    <<"m","a","k","e","f","i","l","e">>, <<".","g","i","t","i","g","n","o","r","e">>,
    <<"r","e","a","d","m","e",".","m","d">> }

PackageJson == <<"p","a","c","k","a","g","e",".","j","s","o","n">>

\* the mappings carried by the member lexemes "d" and "v"
MemberDeps(lex) ==
    IF lex = "d" THEN ("left-pad" :> "1.0.0")
    ELSE ("jest" :> "29.0.0") @@ ("left-pad" :> "2.0.0")

\* dict.update(other)
DictUpdate(old, other) ==
    [k \in DOMAIN old \cup DOMAIN other |-> IF k \in DOMAIN other THEN other[k] ELSE old[k]]

(***************************************************************************)
(* ContentBudgeter: the three caps.                                        *)
(***************************************************************************)
RecordCap == 2000

AiContextCap == 1500

SnippetCap == 1000

\* mutant: content[-2000:], the last characters instead of the first
RecordBudget_Tail(content) ==
    IF Len(content) > RecordCap
    THEN SubSeq(content, Len(content) - RecordCap + 1, Len(content))
    ELSE content

\* content[:2000] if len(content) > 2000 else content
RecordBudget(content) ==
    IF Len(content) > RecordCap THEN Prefix(content, RecordCap) ELSE content

\* content[:1500]
AiBudget(content) == Prefix(content, AiContextCap)

\* content[:1000]
SnippetBudget(content) == Prefix(content, SnippetCap)

\* len(content.splitlines())
Newlines(s) == Cardinality({i \in 1..Len(s) : s[i] = "\n"})

CountLines(content) ==
    Newlines(content) + (IF content # <<>> /\ content[Len(content)] # "\n" THEN 1 ELSE 0)

(***************************************************************************)
(* Ordered dictionaries (dict keeps insertion order): a sequence of        *)
(* <<key, value>> entries with distinct keys.                              *)
(***************************************************************************)
DictKeys(d) == [i \in 1..Len(d) |-> d[i][1]]

DictHas(d, key) == \E i \in 1..Len(d) : d[i][1] = key

DictGet(d, key) == d[CHOOSE i \in 1..Len(d) : d[i][1] = key][2]

\* d[key] = value
DictPut(d, key, value) ==
    IF DictHas(d, key)
    THEN [i \in 1..Len(d) |-> IF d[i][1] = key THEN <<key, value>> ELSE d[i]]
    ELSE Append(d, <<key, value>>)

(***************************************************************************)
(* The file system: one tree.  Directory 0 is the scan root; dirs[i] has   *)
(* a parent with a smaller index; sequence order is listing order.         *)
(***************************************************************************)
VARIABLES tree, pc, analysis, stack, pending, cur, seenDirs, seenFiles,
          calls, reply, request, prompt, saved

vars == <<tree, pc, analysis, stack, pending, cur, seenDirs, seenFiles,
          calls, reply, request, prompt, saved>>

\* os.walk: the sub-directories of directory d, in listing order, from index i
RECURSIVE SubDirsFrom(_, _, _)
SubDirsFrom(t, d, i) ==
    IF i > Len(t.dirs) THEN <<>>
    ELSE (IF t.dirs[i].parent = d THEN <<i>> ELSE <<>>) \o SubDirsFrom(t, d, i + 1)

SubDirs(t, d) == SubDirsFrom(t, d, 1)

\* os.walk: the files of directory d, in listing order, from index i
RECURSIVE FilesFrom(_, _, _)
FilesFrom(t, d, i) ==
    IF i > Len(t.files) THEN <<>>
    ELSE (IF t.files[i].dir = d THEN <<i>> ELSE <<>>) \o FilesFrom(t, d, i + 1)

FilesOf(t, d) == FilesFrom(t, d, 1)

\* root_path.relative_to(repo_path)
RECURSIVE DirPath(_, _)
DirPath(t, d) ==
    IF d = 0 THEN <<>> ELSE Append(DirPath(t, t.dirs[d].parent), t.dirs[d].name)

\* file_path.relative_to(repo_path)
RelPath(t, f) == Append(DirPath(t, t.files[f].dir), t.files[f].name)

HomeName == <<"h","o","m","e">>

\* Path(repo_path).resolve()
RepoPath(t) == <<HomeName, t.rootName>>

\* root_path / file
AbsPath(t, f) == RepoPath(t) \o RelPath(t, f)


(***************************************************************************)
(* The trees the scan is run on.                                           *)
(***************************************************************************)
RepoName == <<"r","e","p","o">>

BuildName == <<"b","u","i","l","d">>

SrcName == <<"s","r","c">>

BuildCapName == <<"B","u","i","l","d">>

GitName == <<".","g","i","t">>

NodeModulesName == <<"n","o","d","e","_","m","o","d","u","l","e","s">>

MainPy == <<"m","a","i","n",".","p","y">>

AppJs == <<"a","p","p",".","j","s">>

LogoPng == <<"l","o","g","o",".","p","n","g">>

UtilsPy == <<"u","t","i","l","s",".","p","y">>

XJs == <<"x",".","j","s">>

ConfigName == <<"c","o","n","f","i","g">>

GitIgnore == <<".","g","i","t","i","g","n","o","r","e">>

MakefileName == <<"M","a","k","e","f","i","l","e">>

NotesIcs == <<"n","o","t","e","s",".","i","c","s">>

IndexChars == <<"0","1","2","3","4","5","6","7","8","9">> \o LowerChars

RootNames == {RepoName, BuildName}

DirNames == {SrcName, BuildCapName, GitName}

\* the kinds of file of the enumerated trees
FileKinds == {
    [name |-> PackageJson, content |-> <<"{", "d", "v", "}", "\n">>, readable |-> TRUE],
    [name |-> PackageJson, content |-> <<"{", "d", "\n">>, readable |-> TRUE],
    [name |-> MainPy, content |-> <<"a", "\n", "a", "\n", "a">>, readable |-> TRUE],
    [name |-> AppJs, content |-> <<"a", "\n">>, readable |-> FALSE] }

File(d, k) == [dir |-> d, name |-> k.name, content |-> k.content, readable |-> k.readable]

\* no two entries of one directory share a name, parents come first, and files
\* are listed directory by directory
WellFormed(t) ==
    /\ \A i \in 1..Len(t.dirs) : t.dirs[i].parent < i
    /\ \A i, j \in 1..Len(t.dirs) :
          i # j /\ t.dirs[i].parent = t.dirs[j].parent => t.dirs[i].name # t.dirs[j].name
    /\ \A i \in 1..Len(t.files) : t.files[i].dir <= Len(t.dirs)
    /\ \A i, j \in 1..Len(t.files) :
          /\ i # j /\ t.files[i].dir = t.files[j].dir => t.files[i].name # t.files[j].name
          /\ i < j => t.files[i].dir <= t.files[j].dir

DirSeqs ==
    UNION {[1..n -> [parent : 0..(MaxDirs - 1), name : DirNames]] : n \in 0..MaxDirs}

\* every shape and naming of up to MaxDirs directories: main.py in the root
\* and a package.json in every other directory
DirTrees ==
    {t \in [exists : {TRUE}, rootName : RootNames, dirs : DirSeqs, files : {<<>>}] :
        WellFormed(t)}

WithFiles(t) ==
    [t EXCEPT !.files =
        <<[dir |-> 0, name |-> MainPy, content |-> <<"a", "\n">>, readable |-> TRUE]>> \o
        [i \in 1..Len(t.dirs) |->
            [dir |-> i, name |-> PackageJson, content |-> <<"{", "d", "}">>, readable |-> TRUE]]]

\* a kept and a skipped directory below the root
FixedDirs == << [parent |-> 0, name |-> SrcName], [parent |-> 0, name |-> BuildCapName] >>

FileSeqs ==
    UNION {[1..n -> {File(d, k) : d \in 0..Len(FixedDirs), k \in FileKinds}] : n \in 0..MaxFiles}

\* every placement of up to MaxFiles files in the root and the two directories
FileTrees ==
    {t \in [exists : {TRUE}, rootName : {RepoName}, dirs : {FixedDirs}, files : FileSeqs] :
        WellFormed(t)}

Trees == {WithFiles(t) : t \in DirTrees} \cup FileTrees

\* a root path that does not exist
MissingTree == [exists |-> FALSE, rootName |-> RepoName, dirs |-> <<>>, files |-> <<>>]

\* ten lines without an import
TenLines == [i \in 1..20 |-> IF i % 2 = 0 THEN "\n" ELSE "a"]

\* src/main.py, node_modules/x.js, package.json and .git/config
ScenarioTree ==
    [exists |-> TRUE, rootName |-> RepoName,
     dirs |-> << [parent |-> 0, name |-> SrcName], [parent |-> 0, name |-> NodeModulesName],
                 [parent |-> 0, name |-> GitName] >>,
     files |-> << [dir |-> 0, name |-> PackageJson, content |-> <<"{", "d", "}">>, readable |-> TRUE],
                  [dir |-> 1, name |-> MainPy, content |-> TenLines, readable |-> TRUE],
                  [dir |-> 2, name |-> XJs, content |-> <<"a">>, readable |-> TRUE],
                  [dir |-> 3, name |-> ConfigName, content |-> <<"a">>, readable |-> TRUE] >>]

\* more than 100 characters with an import among the first 500
ImportContent == [i \in 1..120 |-> IF i = 7 THEN "I" ELSE IF i % 30 = 0 THEN "\n" ELSE "a"]

\* dotfiles, an extensionless name, a text/* suffix and files that are not key files
MixedTree ==
    [exists |-> TRUE, rootName |-> RepoName,
     dirs |-> << [parent |-> 0, name |-> SrcName] >>,
     files |-> << [dir |-> 0, name |-> GitIgnore, content |-> <<"a", "\n">>, readable |-> TRUE],
                  [dir |-> 0, name |-> MakefileName, content |-> <<"a", "\n">>, readable |-> TRUE],
                  [dir |-> 0, name |-> NotesIcs, content |-> <<"a">>, readable |-> TRUE],
                  [dir |-> 0, name |-> UtilsPy, content |-> <<"a", "g", "\n">>, readable |-> TRUE],
                  [dir |-> 1, name |-> UtilsPy, content |-> ImportContent, readable |-> TRUE],
                  [dir |-> 1, name |-> LogoPng, content |-> <<"a">>, readable |-> TRUE] >>]

\* a valid manifest in the root; in src a malformed manifest, a file that
\* cannot be read and a file after them
ManifestTree ==
    [exists |-> TRUE, rootName |-> RepoName,
     dirs |-> << [parent |-> 0, name |-> SrcName] >>,
     files |-> << [dir |-> 0, name |-> PackageJson, content |-> <<"{", "d", "}">>, readable |-> TRUE],
                  [dir |-> 1, name |-> UtilsPy, content |-> <<"a", "\n">>, readable |-> TRUE],
                  [dir |-> 1, name |-> PackageJson, content |-> <<"{", "v", "\n">>, readable |-> TRUE],
                  [dir |-> 1, name |-> AppJs, content |-> <<"a">>, readable |-> FALSE],
                  [dir |-> 1, name |-> MainPy, content |-> <<"a", "\n", "a">>, readable |-> TRUE] >>]

BaseTrees == {MissingTree, ScenarioTree, MixedTree, ManifestTree}

\* n key files main0.py, main1.py, ... in the root
FlatTree(n) ==
    [exists |-> TRUE, rootName |-> RepoName, dirs |-> <<>>,
     files |-> [i \in 1..n |->
        [dir |-> 0,
         name |-> <<"m","a","i","n">> \o <<IndexChars[i]>> \o <<".","p","y">>,
         content |-> <<IndexChars[i], "\n">>, readable |-> TRUE]]]

ManyTrees == {FlatTree(n) : n \in 0..MaxKeyFiles}

\* a content of n characters that vary with the position
LongContent(n) ==
    [i \in 1..n |-> IF i % 64 = 0 THEN "\n" ELSE LowerChars[((i + (i \div 26)) % 26) + 1]]

CapLengths ==
    UNION {(c - CapSlack)..(c + CapSlack) : c \in {SnippetCap, AiContextCap, RecordCap}}

\* one key file whose length is around one of the caps
LongTree(n) ==
    [exists |-> TRUE, rootName |-> RepoName, dirs |-> <<>>,
     files |-> << [dir |-> 0, name |-> MainPy, content |-> LongContent(n), readable |-> TRUE] >>]

LongTrees == {LongTree(n) : n \in CapLengths}

(***************************************************************************)
(* The replies of the summarizer to the detection request.                 *)
(***************************************************************************)
ReplySymbols == {"{", "}", "m", "k", "L", "t", " "}

Texts(maxLen) == UNION {[1..n -> ReplySymbols] : n \in 0..maxLen}

\* the call raises (transport error)
TransportError == [error |-> TRUE, text |-> <<>>]

Answer(text) == [error |-> FALSE, text |-> text]

NoReply == [error |-> FALSE, text |-> <<"-">>]

\* the replies of the scans of the enumerated trees
FewReplies ==
    { TransportError, Answer(<<"{", "m", "}">>), Answer(<<"L">>) }

AllReplies == {TransportError} \cup {Answer(text) : text \in Texts(MaxReplyLen)}


(***************************************************************************)
(* analyze_repository.                                                     *)
(***************************************************************************)
\* rec[key] = value, for a key the record may not have yet
SetField(rec, key, value) ==
    [k \in DOMAIN rec \cup {key} |-> IF k = key THEN value ELSE rec[k]]

\* del rec[key]
DelField(rec, key) == [k \in DOMAIN rec \ {key} |-> rec[k]]

\* list(a set): the elements in some order
Orderings(S) ==
    {sq \in [1..Cardinality(S) -> S] : \A x \in S : \E i \in 1..Cardinality(S) : sq[i] = x}

NewAnalysis(t) ==
    [repo_name |-> t.rootName,
     repo_path |-> RepoPath(t),
     structure |-> <<>>,
     files |-> <<>>,
     languages |-> {},
     frameworks |-> {},
     dependencies |-> <<>>,
     config_files |-> <<>>,
     total_files |-> 0,
     total_lines |-> 0,
     file_contents_for_ai |-> <<>>]

\* mutant: the except clause starts the mapping afresh
PackageDependencies_Cleared(deps, content) ==
    IF ~JsonValid(content) THEN <<>>
    ELSE LET package_data == json_loads(content)
             d1 == IF "d" \in package_data.members THEN DictUpdate(deps, MemberDeps("d")) ELSE deps
         IN  IF "v" \in package_data.members THEN DictUpdate(d1, MemberDeps("v")) ELSE d1

\* the dependencies after package.json content has been processed
PackageDependencies(deps, content) ==
    IF ~JsonValid(content) THEN deps
    ELSE LET package_data == json_loads(content)
             d1 == IF "d" \in package_data.members THEN DictUpdate(deps, MemberDeps("d")) ELSE deps
         IN  IF "v" \in package_data.members THEN DictUpdate(d1, MemberDeps("v")) ELSE d1

\* the analysis after detect_basic_file_types(file_path, content, analysis)
detect_basic_file_types(a, file_path, content) ==
    LET filename == Lower(file_path[Len(file_path)])
        a1 == IF filename \in config_file_names
              THEN [a EXCEPT !.config_files = Append(@, file_path)]
              ELSE a
    IN  IF filename = PackageJson
        THEN [a1 EXCEPT !.dependencies = PackageDependencies(@, content)]
        ELSE a1

\* the body of the try block for a file whose read succeeds
StoreFile(a, t, f) ==
    LET file == t.files[f]
        content == file.content
        lines == CountLines(content)
        a1 == [a EXCEPT !.total_files = @ + 1,
                        !.total_lines = @ + lines,
                        !.files = DictPut(@, RelPath(t, f),
                                     [size |-> Len(content), lines |-> lines,
                                      extension |-> Suffix(file.name),
                                      content |-> RecordBudget(content)]),
                        !.languages = IF Suffix(file.name) # <<>>
                                      THEN @ \cup {Lower(Suffix(file.name))} ELSE @]
        a2 == IF is_key_file_for_analysis(file.name, content)
              THEN [a1 EXCEPT !.file_contents_for_ai =
                       Append(@, [path |-> RelPath(t, f), content |-> AiBudget(content),
                                  extension |-> Suffix(file.name)])]
              ELSE a1
    IN  detect_basic_file_types(a2, AbsPath(t, f), content)

\* mutant: a file that cannot be read is recorded as an empty file
TryFile_EmptyOnError(a, t, f) ==
    IF t.files[f].readable THEN StoreFile(a, t, f)
    ELSE StoreFile(a, [t EXCEPT !.files[f].content = <<>>], f)

\* the try block: total_files is counted before open() raises
TryFile(a, t, f) ==
    IF t.files[f].readable THEN StoreFile(a, t, f)
    ELSE [a EXCEPT !.total_files = @ + 1]

\* mutant: the filtered list is bound to a new name, os.walk descends everywhere
KeptDirs_Rebound(t, d) == SubDirs(t, d)

\* dirs[:] = [d for d in dirs if not self.should_skip_directory(d)]
KeptDirs(t, d) ==
    SelectSeq(SubDirs(t, d), LAMBDA j : ~should_skip_directory(t.dirs[j].name))

\* re.search(r'\{.*\}', text, re.DOTALL): from the first "{" to the last "}"
HasBraceMatch(text) ==
    \E i, j \in 1..Len(text) : i < j /\ text[i] = "{" /\ text[j] = "}"

\* mutant: the non-greedy pattern \{.*?\}, from the first "{" to the next "}"
BraceMatch_NonGreedy(text) ==
    LET first == CHOOSE i \in 1..Len(text) : text[i] = "{" /\ \A h \in 1..(i-1) : text[h] # "{"
        next == CHOOSE j \in (first+1)..Len(text) :
                    text[j] = "}" /\ \A h \in (first+1)..(j-1) : text[h] # "}"
    IN  SubSeq(text, first, next)

BraceMatch(text) ==
    LET first == CHOOSE i \in 1..Len(text) : text[i] = "{" /\ \A h \in 1..(i-1) : text[h] # "{"
        last == CHOOSE j \in 1..Len(text) : text[j] = "}" /\ \A h \in (j+1)..Len(text) : text[h] # "}"
    IN  SubSeq(text, first, last)

\* what the detection returns: a dict (with or without the three fields) or
\* another JSON value
DefaultDetection ==
    [isdict |-> TRUE, has |-> TRUE, frameworks |-> <<>>, technologies |-> <<>>,
     project_type |-> "Unknown"]

Detection(value) ==
    IF value.isdict /\ "m" \in value.members
    THEN [isdict |-> TRUE, has |-> TRUE, frameworks |-> <<"Flask">>, technologies |-> <<>>,
          project_type |-> "API"]
    ELSE [isdict |-> value.isdict, has |-> FALSE, frameworks |-> <<>>, technologies |-> <<>>,
          project_type |-> ""]

ai_detect_frameworks_and_technologies(r) ==
    IF r.error THEN DefaultDetection
    ELSE LET response_content == Strip(r.text)
         IN  IF JsonValid(response_content) THEN Detection(json_loads(response_content))
             ELSE IF HasBraceMatch(response_content)
                  THEN IF JsonValid(BraceMatch(response_content))
                       THEN Detection(json_loads(BraceMatch(response_content)))
                       ELSE DefaultDetection
                  ELSE DefaultDetection

\* the excerpts of the detection request
ExcerptLimit == 10

\* mutant: the slice [:10] is missing
RequestExcerpts_Unsliced(a) == a.file_contents_for_ai

\* analysis['file_contents_for_ai'][:10]
RequestExcerpts(a) == Prefix(a.file_contents_for_ai, ExcerptLimit)

SeqRange(sq) == {sq[i] : i \in 1..Len(sq)}

Init ==
    /\ tree \in Trees \cup BaseTrees \cup ManyTrees \cup LongTrees
    /\ pc = "start"
    /\ analysis = <<>>
    /\ stack = <<>>
    /\ pending = <<>>
    /\ cur = 0
    /\ seenDirs = {}
    /\ seenFiles = {}
    /\ calls = 0
    /\ reply = NoReply
    /\ request = <<>>
    /\ prompt = <<>>
    /\ saved = <<>>

\* lines 85-102: resolve the path, fail when it does not exist
Begin ==
    /\ pc = "start"
    /\ IF tree.exists
       THEN /\ pc' = "walking"
            /\ analysis' = NewAnalysis(tree)
            /\ stack' = <<0>>
       ELSE /\ pc' = "failed"
            /\ UNCHANGED <<analysis, stack>>
    /\ UNCHANGED <<tree, pending, cur, seenDirs, seenFiles, calls, reply, request, prompt, saved>>

\* lines 105-110: os.walk yields the next directory
VisitDir ==
    /\ pc = "walking"
    /\ pending = <<>>
    /\ stack # <<>>
    /\ cur' = Head(stack)
    /\ stack' = KeptDirs(tree, Head(stack)) \o Tail(stack)
    /\ pending' = FilesOf(tree, Head(stack))
    /\ seenDirs' = seenDirs \cup {Head(stack)}
    /\ UNCHANGED <<tree, pc, analysis, seenFiles, calls, reply, request, prompt, saved>>

\* lines 112-151: one file of the current directory
ProcessFile ==
    /\ pc = "walking"
    /\ pending # <<>>
    /\ pending' = Tail(pending)
    /\ seenFiles' = seenFiles \cup {Head(pending)}
    /\ analysis' = IF is_text_file(tree.files[Head(pending)].name)
                   THEN TryFile(analysis, tree, Head(pending))
                   ELSE analysis
    /\ UNCHANGED <<tree, pc, stack, cur, seenDirs, calls, reply, request, prompt, saved>>

\* what Summarize does once its guard holds
Detect(Replies, next_pc) ==
    \E r \in Replies :
        LET ai_detected == ai_detect_frameworks_and_technologies(r)
        IN  /\ reply' = r
            /\ request' = RequestExcerpts(analysis)
            /\ calls' = calls + 1
            /\ IF ai_detected.isdict
               THEN /\ analysis' =
                         SetField(SetField(
                             [analysis EXCEPT !.frameworks = @ \cup SeqRange(ai_detected.frameworks)],
                             "technologies", ai_detected.technologies),
                             "project_type",
                             IF ai_detected.has THEN ai_detected.project_type ELSE "Unknown")
                    /\ pc' = next_pc
               ELSE /\ analysis' = analysis
                    /\ pc' = "raised"

\* mutant: the call is indented into the loop over the directories
Summarize_InLoop(Replies) ==
    /\ pc = "walking"
    /\ pending = <<>>
    /\ cur \in seenDirs
    /\ calls <= Len(tree.dirs)
    /\ Detect(Replies, IF stack = <<>> THEN "finalizing" ELSE "walking")
    /\ UNCHANGED <<tree, stack, pending, cur, seenDirs, seenFiles, prompt, saved>>

\* lines 153-158: the detection call and the merge of its result
Summarize(Replies) ==
    /\ pc = "walking"
    /\ pending = <<>>
    /\ stack = <<>>
    /\ Detect(Replies, "finalizing")
    /\ UNCHANGED <<tree, stack, pending, cur, seenDirs, seenFiles, prompt, saved>>

SummarizeFew == Summarize(FewReplies)

SummarizeAny == Summarize(AllReplies)

\* lines 160-167: the sets become lists, the buffer is dropped
Finalize ==
    /\ pc = "finalizing"
    /\ \E langs \in Orderings(analysis.languages), fws \in Orderings(analysis.frameworks) :
          analysis' = DelField([analysis EXCEPT !.languages = langs, !.frameworks = fws],
                               "file_contents_for_ai")
    /\ pc' = "returned"
    /\ UNCHANGED <<tree, stack, pending, cur, seenDirs, seenFiles, calls, reply, request, prompt, saved>>


(***************************************************************************)
(* generate_readme and the persistence step of main.                       *)
(***************************************************************************)
FileListLimit == 20

ImportantLimit == 5

ImportantWords == {
    <<"m","a","i","n">>, <<"i","n","d","e","x">>, <<"a","p","p">>, <<"s","e","r","v","e","r">>,
    <<"_","_","i","n","i","t","_","_">>, <<"s","e","t","u","p">>, <<"c","o","n","f","i","g">> }

\* argparse, os.getenv, api_key, api key, secret_key: the symbol "g" stands
\* for an occurrence of one of them
SecretKeywords == { <<"g">> }

IsImportant(a, f_path) ==
    \/ \E w \in ImportantWords : Contains(Lower(PathStr(f_path)), w)
    \/ \E kw \in SecretKeywords :
          Contains(Lower(Prefix(DictGet(a.files, f_path).content, SnippetCap)), kw)

\* the snippets embedded in the prompt, lines 317-343
PromptSnippets(a) ==
    LET file_list == Prefix(DictKeys(a.files), FileListLimit)
        important_files ==
            Prefix(SelectSeq(file_list, LAMBDA p : IsImportant(a, p)), ImportantLimit)
    IN  [i \in 1..Len(important_files) |->
            [path |-> important_files[i],
             content |-> SnippetBudget(DictGet(a.files, important_files[i]).content)]]

\* lines 300-391: build the prompt, call the summarizer; its failure is fatal
GenerateReadme ==
    /\ pc = "returned"
    /\ prompt' = PromptSnippets(analysis)
    /\ \E ok \in BOOLEAN : pc' = IF ok THEN "generated" ELSE "genfailed"
    /\ UNCHANGED <<tree, analysis, stack, pending, cur, seenDirs, seenFiles, calls, reply,
                   request, saved>>

\* {k: v for k, v in record.items() if k != 'content'}
StripContent(rec) == DelField(rec, "content")

\* lines 436-446: analysis.copy() is shallow, so the files dict that is
\* rewritten is the one of the analysis itself
SaveAnalysis ==
    /\ pc = "generated"
    /\ analysis' = [analysis EXCEPT !.files =
                       [i \in 1..Len(@) |-> <<@[i][1], StripContent(@[i][2])>>]]
    /\ saved' = analysis'
    /\ pc' = "done"
    /\ UNCHANGED <<tree, stack, pending, cur, seenDirs, seenFiles, calls, reply, request, prompt>>

Next ==
    \/ Begin
    \/ VisitDir
    \/ ProcessFile
    \/ SummarizeFew
    \/ Finalize
    \/ GenerateReadme
    \/ SaveAnalysis

Spec == Init /\ [][Next]_vars

\* the scans of a few trees under every reply of the summarizer
InitDetect ==
    /\ Init
    /\ tree \in {MissingTree, FlatTree(1)}

NextDetect ==
    \/ Begin
    \/ VisitDir
    \/ ProcessFile
    \/ SummarizeAny
    \/ Finalize
    \/ GenerateReadme
    \/ SaveAnalysis

SpecDetect == InitDetect /\ [][NextDetect]_vars


(***************************************************************************)
(* Properties.                                                             *)
(***************************************************************************)
Created == "files" \in DOMAIN analysis

Returned == pc \in {"returned", "generated", "genfailed", "done"}

FileIds == 1..Len(tree.files)

\* directory d lies in or below a directory the name test rejects, the
\* scan root excluded
RECURSIVE BelowSkipped(_, _)
BelowSkipped(t, d) ==
    /\ d # 0
    /\ should_skip_directory(t.dirs[d].name) \/ BelowSkipped(t, t.dirs[d].parent)

\* the files the walk is to accept: text files outside the skipped directories
Accepted == {f \in FileIds : ~BelowSkipped(tree, tree.files[f].dir) /\ is_text_file(tree.files[f].name)}

RECURSIVE SumLines(_)
SumLines(d) == IF d = <<>> THEN 0 ELSE d[1][2].lines + SumLines(Tail(d))

\* C1: a scan that returns has total_files equal to the number of entries of
\* files and total_lines equal to the sum of their line counts.
C1_TotalsMatchFiles ==
    pc = "returned" =>
        /\ analysis.total_files = Len(analysis.files)
        /\ analysis.total_lines = SumLines(analysis.files)

\* C2 as stated: no file beneath a directory that the name test rejects, the
\* scan root included, is a key of files.
C2_NoFileBelowSkippedOrRoot ==
    Created =>
        \A f \in FileIds :
            (should_skip_directory(tree.rootName) \/ BelowSkipped(tree, tree.files[f].dir))
                => ~DictHas(analysis.files, RelPath(tree, f))

\* the dependency names that the package.json files outside the skipped
\* directories can contribute
AcceptedDependencyNames ==
    UNION {DOMAIN PackageDependencies(<<>>, tree.files[f].content) :
             f \in {g \in Accepted : Lower(tree.files[g].name) = PackageJson}}

\* C2 (amended): no file beneath a directory below the scan root that the name
\* test rejects is a key of files or an entry of config_files, and such files
\* add nothing to total_files or to dependencies.
C2_NoFileBelowSkipped ==
    Created =>
        /\ \A f \in FileIds :
              BelowSkipped(tree, tree.files[f].dir) =>
                  /\ ~DictHas(analysis.files, RelPath(tree, f))
                  /\ AbsPath(tree, f) \notin SeqRange(analysis.config_files)
        /\ analysis.total_files <= Cardinality(Accepted)
        /\ DOMAIN analysis.dependencies \subseteq AcceptedDependencyNames

\* a returned scan of a tree with a package.json below a skipped directory
\* and a file record outside it
C2_Witness ==
    /\ pc = "returned"
    /\ Len(analysis.files) > 0
    /\ \E f \in FileIds :
          /\ BelowSkipped(tree, tree.files[f].dir)
          /\ tree.files[f].name = PackageJson
          /\ tree.files[f].readable

\* C3 as stated: the buffer file_contents_for_ai never holds more than 10
\* entries.
C3_BufferAtMostTen ==
    "file_contents_for_ai" \in DOMAIN analysis => Len(analysis.file_contents_for_ai) <= 10

\* C3 (amended): the detection request carries at most 10 excerpts, the first
\* ones of the buffer in order; the buffer itself is not bounded.
C3_RequestAtMostTen ==
    /\ Len(request) <= 10
    /\ pc = "finalizing" =>
          /\ Len(request) <= Len(analysis.file_contents_for_ai)
          /\ Len(analysis.file_contents_for_ai) <= 10 =>
                Len(request) = Len(analysis.file_contents_for_ai)
          /\ \A i \in 1..Len(request) : request[i] = analysis.file_contents_for_ai[i]

\* the request has been sent from a buffer of more than 10 excerpts
C3_Witness ==
    /\ pc = "finalizing"
    /\ Len(analysis.file_contents_for_ai) > 10
    /\ Len(request) = 10

\* some slice of the text is a JSON object with the three fields
HasDetectionObject(text) ==
    \E i, j \in 1..Len(text) :
        /\ i <= j
        /\ JsonValid(SubSeq(text, i, j))
        /\ json_loads(SubSeq(text, i, j)).isdict
        /\ "m" \in json_loads(SubSeq(text, i, j)).members

\* C4: when no object with the three fields can be recovered from the outcome
\* of the detection call, the scan returns normally with no frameworks, no
\* technologies and project_type "Unknown".
C4_DegradesToDefaults ==
    (calls = 1 /\ (reply.error \/ ~HasDetectionObject(reply.text))) =>
        /\ pc # "raised"
        /\ Returned =>
              /\ analysis.frameworks = <<>>
              /\ analysis.technologies = <<>>
              /\ analysis.project_type = "Unknown"

\* the config-named keys of files, in insertion order
ConfigKeys ==
    SelectSeq(DictKeys(analysis.files), LAMBDA p : Lower(p[Len(p)]) \in config_file_names)

\* C5: config_files lists, in discovery order, the relative paths (the keys
\* of files) of the accepted files whose name is a config name.
C5_ConfigFilesRelative ==
    pc = "returned" => analysis.config_files = ConfigKeys


\* C6: processing a package.json that is not valid JSON leaves dependencies
\* as they were, raises nothing and leaves the rest of the walk in place.
C6_MalformedManifestSkipped ==
    [][(/\ pc = "walking"
        /\ pending # <<>>
        /\ Lower(tree.files[Head(pending)].name) = PackageJson
        /\ tree.files[Head(pending)].readable
        /\ ~JsonValid(tree.files[Head(pending)].content))
       => /\ analysis'.dependencies = analysis.dependencies
          /\ DictHas(analysis'.files, RelPath(tree, Head(pending)))
          /\ pc' = "walking"
          /\ pending' = Tail(pending)
          /\ stack' = stack]_vars

\* a malformed package.json has been processed while dependencies of an
\* earlier manifest were recorded and files were still to come
C6_Witness ==
    /\ pc = "walking"
    /\ pending # <<>>
    /\ analysis.dependencies # <<>>
    /\ \E f \in seenFiles :
          /\ tree.files[f].name = PackageJson
          /\ ~JsonValid(tree.files[f].content)
          /\ DictHas(analysis.files, RelPath(tree, f))

\* C7: an accepted file whose read raises gets no file record, no excerpt and
\* no config_files entry, and every other accepted file has its record when
\* the detection call is made; only that call can make the scan raise.
C7_UnreadableFileSkipped ==
    Created =>
        /\ \A f \in Accepted :
              ~tree.files[f].readable =>
                  /\ ~DictHas(analysis.files, RelPath(tree, f))
                  /\ AbsPath(tree, f) \notin SeqRange(analysis.config_files)
                  /\ "file_contents_for_ai" \in DOMAIN analysis =>
                        \A i \in 1..Len(analysis.file_contents_for_ai) :
                            analysis.file_contents_for_ai[i].path # RelPath(tree, f)
        /\ calls >= 1 =>
              \A f \in Accepted : tree.files[f].readable => DictHas(analysis.files, RelPath(tree, f))
        /\ pc = "raised" => calls = 1

\* the detection call has been made after a walk in which a read failed
\* between two files of the same directory that were read
C7_Witness ==
    /\ calls = 1
    /\ \E f, g, h \in Accepted :
          /\ g < f /\ f < h
          /\ tree.files[g].dir = tree.files[f].dir /\ tree.files[h].dir = tree.files[f].dir
          /\ ~tree.files[f].readable
          /\ DictHas(analysis.files, RelPath(tree, g))
          /\ DictHas(analysis.files, RelPath(tree, h))

\* b is orig when orig has at most cap characters, its first cap characters otherwise
IsPrefixWithin(b, orig, cap) ==
    /\ Len(b) = IF Len(orig) <= cap THEN Len(orig) ELSE cap
    /\ \A i \in 1..Len(b) : b[i] = orig[i]

\* the content of the file of the tree with the relative path p
ContentAt(p) == tree.files[CHOOSE f \in FileIds : RelPath(tree, f) = p].content

\* C8: a stored content is the original or its first 2000 characters, an
\* excerpt of the buffer its first 1500, a snippet of the prompt its first
\* 1000, and budgeting a budgeted content again changes nothing.
C8_BudgetIsPrefix ==
    Created =>
        /\ \A i \in 1..Len(analysis.files) :
              "content" \in DOMAIN analysis.files[i][2] =>
                  /\ IsPrefixWithin(analysis.files[i][2].content,
                                    ContentAt(analysis.files[i][1]), 2000)
                  /\ RecordBudget(analysis.files[i][2].content) = analysis.files[i][2].content
        /\ "file_contents_for_ai" \in DOMAIN analysis =>
              \A i \in 1..Len(analysis.file_contents_for_ai) :
                  /\ IsPrefixWithin(analysis.file_contents_for_ai[i].content,
                                    ContentAt(analysis.file_contents_for_ai[i].path), 1500)
                  /\ AiBudget(analysis.file_contents_for_ai[i].content)
                        = analysis.file_contents_for_ai[i].content
        /\ \A i \in 1..Len(prompt) :
              /\ IsPrefixWithin(prompt[i].content, ContentAt(prompt[i].path), 1000)
              /\ SnippetBudget(prompt[i].content) = prompt[i].content

\* a file longer than every cap has been stored and embedded in the prompt
C8_Witness ==
    /\ pc = "generated"
    /\ \E i \in 1..Len(prompt) :
          /\ Len(ContentAt(prompt[i].path)) > 2000
          /\ Len(prompt[i].content) = 1000
          /\ Len(DictGet(analysis.files, prompt[i].path).content) = 2000

\* the directories and the files os.walk is to reach
WalkDirs == {d \in 0..Len(tree.dirs) : ~BelowSkipped(tree, d)}

WalkFiles == {f \in FileIds : ~BelowSkipped(tree, tree.files[f].dir)}

\* C9: the detection call is made at most once, only when the walk has
\* visited every directory and file that is not pruned, exactly once in a
\* scan that returns, and nothing is recorded after it; with a missing root
\* nothing is walked and no call is made.
C9_OneCallAfterWalk ==
    [][/\ calls' <= 1
       /\ calls' > calls => tree.exists /\ seenDirs = WalkDirs /\ seenFiles = WalkFiles
       /\ Returned' => calls' = 1
       /\ calls >= 1 =>
             /\ DictKeys(analysis'.files) = DictKeys(analysis.files)
             /\ analysis'.total_files = analysis.total_files
             /\ analysis'.total_lines = analysis.total_lines
             /\ analysis'.config_files = analysis.config_files
             /\ analysis'.dependencies = analysis.dependencies
             /\ seenDirs' = seenDirs /\ seenFiles' = seenFiles
       /\ ~tree.exists =>
             pc' = "failed" /\ calls' = 0 /\ seenDirs' = {} /\ seenFiles' = {} /\ ~Created']_vars

\* a scan of several directories has returned after its one call
C9_Witness ==
    /\ pc = "done"
    /\ calls = 1
    /\ Cardinality(seenDirs) > 1
    /\ Len(analysis.files) > 1
    /\ \E d \in 1..Len(tree.dirs) : BelowSkipped(tree, d)

\* the number of "{" minus the number of "}" in text[i..j]
Depth(text, i, j) ==
    Cardinality({h \in i..j : text[h] = "{"}) - Cardinality({h \in i..j : text[h] = "}"})

FirstOpen(text) == CHOOSE i \in 1..Len(text) : text[i] = "{" /\ \A h \in 1..(i-1) : text[h] # "{"

HasBalanced(text) ==
    /\ \E i \in 1..Len(text) : text[i] = "{"
    /\ \E j \in FirstOpen(text)..Len(text) : Depth(text, FirstOpen(text), j) = 0

\* from the first "{" to its matching "}"
FirstBalanced(text) ==
    LET i == FirstOpen(text)
        j == CHOOSE j \in i..Len(text) :
                 Depth(text, i, j) = 0 /\ \A h \in i..(j-1) : Depth(text, i, h) # 0
    IN  SubSeq(text, i, j)

\* the record that a scan returns carries the detection of this JSON object
CarriesObject(object) ==
    IF "m" \in json_loads(object).members
    THEN /\ analysis.frameworks = <<"Flask">>
         /\ analysis.technologies = <<>>
         /\ analysis.project_type = "API"
    ELSE /\ analysis.frameworks = <<>>
         /\ analysis.technologies = <<>>
         /\ analysis.project_type = "Unknown"

CarriesDefaults ==
    /\ analysis.frameworks = <<>>
    /\ analysis.technologies = <<>>
    /\ analysis.project_type = "Unknown"

\* C10 as stated: from a reply that is not valid JSON, the object recovered is
\* the parse of the first balanced-brace substring, whatever surrounds it.
C10_FirstBalancedObject ==
    (/\ calls = 1
     /\ ~reply.error
     /\ ~JsonValid(Strip(reply.text))
     /\ HasBalanced(Strip(reply.text))
     /\ JsonValid(FirstBalanced(Strip(reply.text))))
    => /\ pc # "raised"
       /\ Returned => CarriesObject(FirstBalanced(Strip(reply.text)))

LastClose(text) == CHOOSE j \in 1..Len(text) : text[j] = "}" /\ \A h \in (j+1)..Len(text) : text[h] # "}"

HasSpan(text) ==
    /\ \E i \in 1..Len(text) : text[i] = "{"
    /\ \E j \in (FirstOpen(text)+1)..Len(text) : text[j] = "}"

\* C10 (amended): from a reply that is not valid JSON, the object recovered is
\* the parse of the text from its first "{" to its last "}"; when there is no
\* such text or it is not valid JSON, the defaults result.
C10_FirstToLastBrace ==
    (calls = 1 /\ ~reply.error /\ ~JsonValid(Strip(reply.text)))
    => /\ pc # "raised"
       /\ Returned =>
             LET text == Strip(reply.text)
             IN  IF HasSpan(text) /\ JsonValid(SubSeq(text, FirstOpen(text), LastClose(text)))
                 THEN CarriesObject(SubSeq(text, FirstOpen(text), LastClose(text)))
                 ELSE CarriesDefaults

\* the scan returned what a reply of text followed by the object carries
C10_Witness ==
    /\ pc = "returned"
    /\ reply = Answer(<<"t", "{", "m", "}">>)
    /\ analysis.frameworks = <<"Flask">>
    /\ analysis.project_type = "API"


\* C11: the returned record has no file_contents_for_ai, and no later step
\* (generate_readme, the persistence step of main) changes any of its fields.
C11_ReturnedRecordFrozen ==
    [][Returned =>
          /\ "file_contents_for_ai" \notin DOMAIN analysis
          /\ analysis' = analysis]_vars

\* the dotfiles whose full name is an entry of the tables
TableDotfiles ==
    {f \in WalkFiles :
        /\ StartsWith(tree.files[f].name, <<".">>)
        /\ tree.files[f].readable
        /\ \/ tree.files[f].name \in supported_extensions
           \/ Lower(tree.files[f].name) \in config_file_names}

\* C12: a readable dotfile of a directory that is not pruned, whose full name
\* is an entry of the tables, is accepted by is_text_file, has a file record
\* and, with a config name, an entry of config_files.
C12_DotfileAccepted ==
    pc = "returned" =>
        \A f \in TableDotfiles :
            /\ is_text_file(tree.files[f].name)
            /\ DictHas(analysis.files, RelPath(tree, f))
            /\ Lower(tree.files[f].name) \in config_file_names =>
                  \E i \in 1..Len(analysis.config_files) :
                      LET p == analysis.config_files[i]
                      IN  p[Len(p)] = tree.files[f].name

====
